---- MODULE Spec2Model ----
(***************************************************************************)
(* CampyGO voice session controller (App.tsx): the React state of the      *)
(* voice assistant, the stateRef snapshot its callbacks read, the speech   *)
(* recognition and speech synthesis adapters, the timers the callbacks     *)
(* schedule and the intent-service calls in flight.                        *)
(*                                                                         *)
(* Handlers are written as operators from a machine record to a machine    *)
(* record so that a handler that calls another (speak calls stopListening, *)
(* the catch path calls startListening) is the composition of the two.     *)
(* Each action commits the record its handler returns.                     *)
(***************************************************************************)
EXTENDS Integers, Sequences, FiniteSets, TLC

VARIABLES
    isListening,      \* useState(false)   part_000:28
    isProcessing,     \* useState(false)   part_000:29
    aiSpeaking,       \* useState(false)   part_000:31
    voiceActive,      \* useState(false)   part_000:32
    userType,         \* useState(null)    part_000:19
    currentView,      \* useState('home')  part_000:20
    passengerProfile, \* part_000:50 (name, phone)
    driverProfile,    \* part_000:40 (name, phone, plate)
    driverStatus,     \* useState('offline') part_000:21
    activeTrip,       \* useState(null)   part_000:23 (status of the trip, or "null")
    tripRequest,      \* part_000:57 (which coordinates are set)
    stateRef,         \* useRef snapshot   part_000:69
    processingRef,    \* useRef(false)     part_000:36
    heartbeatRef,     \* interval handle   part_000:37 (TRUE = interval scheduled)
    recState,         \* SpeechRecognition session: idle / running / stopping / ending
    recStartPending,  \* the session's start event has not been delivered yet
    synthQueue,       \* speechSynthesis: utterances held, head is the one speaking
    synthCancelled,   \* cancelled utterances whose end/error callback is still to fire
    speakTimers,      \* pending setTimeout(..., 50) of speak(), in order, with their text
    restartTimers,    \* pending setTimeout(startListening, 200)
    calls,            \* intent-service calls in flight, each with its currentState argument
    acceptTimers,     \* pending setTimeout(..., 4000) of requestTrip
    locationCalls,    \* geolocation requests in flight, each with what awaits it
    lastEvent,        \* history: the observed handler that ran last, or "other"
    tripPosition,     \* driverLat, driverLng, pickupLat, pickupLng of activeTrip,
                      \* in millionths of a degree
    simTimers         \* scheduled setInterval(..., 1000) of the simulation effect

vars == <<isListening, isProcessing, aiSpeaking, voiceActive, userType, currentView,
          passengerProfile, driverProfile, driverStatus, activeTrip, tripRequest, stateRef, processingRef, heartbeatRef,
          recState, recStartPending, synthQueue, synthCancelled, speakTimers,
          restartTimers, calls, acceptTimers, locationCalls, lastEvent, tripPosition,
          simTimers>>

----------------------------------------------------------------------------
(* Bounds *)
MaxSpeakTimers == 1   \* pending 50 ms timers
MaxRestartTimers == 1 \* pending 200 ms timers
MaxCancelled == 1     \* cancelled utterances with a callback outstanding
MaxCalls == 1         \* intent-service calls in flight
MaxBurst == 2         \* pending 50 ms timers where application handlers speak
MaxAcceptTimers == 1  \* pending 4 s timers
MaxLocating == 1      \* geolocation requests in flight

----------------------------------------------------------------------------
(* Values *)
NoUser == "null"
Greeting == "Hola, soy tu asistente. Dime tu nombre o a donde quieres ir."
Entendido == "Entendido."
Prompt == "prompt"   \* any other text: a response's speech, a prompt of the app
NullTrip == "null"
NoPosition == [driverLat |-> 0, driverLng |-> 0, pickupLat |-> 0, pickupLng |-> 0]
EmptyRequest == [pickupSet |-> FALSE, destinationSet |-> FALSE]
\* Phone and plate texts are sequences of characters.
NewPassenger == [name |-> "", phone |-> <<>>]
NewDriver == [name |-> "", phone |-> <<>>, plate |-> <<>>]
\* The position the geolocation adapter reports.
UserLocation == [lat |-> 4605000, lng |-> -74075000]

Views == {"home", "passenger-register", "driver-register", "passenger-dashboard",
          "driver-dashboard", "searching", "trip-active", "rate-driver"}

\* The responses the intent service gives in the voice specification.
VoiceIntents ==
    { [action |-> "NAVIGATE_PASSENGER_REG", value |-> "", speech |-> Prompt],
      [action |-> "NONE", value |-> "", speech |-> Prompt] }

\* The responses it gives in the application specification, which follows a
\* passenger from the home view to the end of a trip.
DispatchIntents ==
    { [action |-> a, value |-> "Plaza Principal", speech |-> Prompt] :
          a \in {"NAVIGATE_PASSENGER_REG", "NAVIGATE_DESTINATION", "CONFIRM_TRIP",
                 "CANCEL", "NONE"} }
DispatchRoles == {"passenger"}

----------------------------------------------------------------------------
(* The machine record *)
Cur ==
    [ isListening |-> isListening, isProcessing |-> isProcessing,
      aiSpeaking |-> aiSpeaking, voiceActive |-> voiceActive,
      userType |-> userType, currentView |-> currentView,
      passengerProfile |-> passengerProfile, driverProfile |-> driverProfile,
      driverStatus |-> driverStatus, activeTrip |-> activeTrip,
      tripRequest |-> tripRequest,
      stateRef |-> stateRef, processingRef |-> processingRef,
      heartbeatRef |-> heartbeatRef,
      recState |-> recState, recStartPending |-> recStartPending,
      synthQueue |-> synthQueue, synthCancelled |-> synthCancelled,
      speakTimers |-> speakTimers, restartTimers |-> restartTimers,
      calls |-> calls, acceptTimers |-> acceptTimers,
      locationCalls |-> locationCalls,
      tripPosition |-> tripPosition, simTimers |-> simTimers ]

Commit(s) ==
    /\ isListening' = s.isListening
    /\ isProcessing' = s.isProcessing
    /\ aiSpeaking' = s.aiSpeaking
    /\ voiceActive' = s.voiceActive
    /\ userType' = s.userType
    /\ currentView' = s.currentView
    /\ passengerProfile' = s.passengerProfile
    /\ driverProfile' = s.driverProfile
    /\ driverStatus' = s.driverStatus
    /\ activeTrip' = s.activeTrip
    /\ tripRequest' = s.tripRequest
    /\ stateRef' = s.stateRef
    /\ processingRef' = s.processingRef
    /\ heartbeatRef' = s.heartbeatRef
    /\ recState' = s.recState
    /\ recStartPending' = s.recStartPending
    /\ synthQueue' = s.synthQueue
    /\ synthCancelled' = s.synthCancelled
    /\ speakTimers' = s.speakTimers
    /\ restartTimers' = s.restartTimers
    /\ calls' = s.calls
    /\ acceptTimers' = s.acceptTimers
    /\ locationCalls' = s.locationCalls
    /\ tripPosition' = s.tripPosition
    /\ simTimers' = s.simTimers

\* The object the sync effect stores in stateRef.current.
Snapshot(s) ==
    [ currentView |-> s.currentView, userType |-> s.userType,
      driverProfile |-> s.driverProfile, passengerProfile |-> s.passengerProfile,
      tripRequest |-> s.tripRequest, activeTrip |-> s.activeTrip,
      aiSpeaking |-> s.aiSpeaking, voiceActive |-> s.voiceActive,
      isListening |-> s.isListening ]

----------------------------------------------------------------------------
(* Adapters *)

\* recognition.start(): throws when a session exists, else opens one.
RecCanStart(s) == s.recState = "idle"
recognitionStart(s) == [s EXCEPT !.recState = "running", !.recStartPending = TRUE]

\* recognition.stop(): asks a running session to finish; no effect otherwise.
recognitionStop(s) ==
    IF s.recState = "running" THEN [s EXCEPT !.recState = "stopping"] ELSE s

\* speechSynthesis.cancel(): drops every utterance; each one's end/error
\* callback fires later.
synthCancel(s) ==
    [s EXCEPT !.synthQueue = <<>>, !.synthCancelled = @ + Len(s.synthQueue)]

----------------------------------------------------------------------------
(* Voice logic *)

\* A startListening that sets the Listening flag before recognition.start()
\* has succeeded.
startListening_flagFirst(s) ==
    IF s.stateRef.aiSpeaking \/ s.processingRef \/ s.stateRef.isListening
    THEN s
    ELSE [(IF RecCanStart(s) THEN recognitionStart(s) ELSE s) EXCEPT !.isListening = TRUE]

startListening(s) ==
    IF s.stateRef.aiSpeaking \/ s.processingRef \/ s.stateRef.isListening
    THEN s
    ELSE IF RecCanStart(s)
         THEN [recognitionStart(s) EXCEPT !.isListening = TRUE]
         ELSE s

stopListening(s) == [recognitionStop(s) EXCEPT !.isListening = FALSE]

speak(s, text) ==
    LET s1 == IF Len(s.synthQueue) > 0 THEN synthCancel(s) ELSE s
        s2 == stopListening(s1)
    IN [s2 EXCEPT !.aiSpeaking = TRUE, !.isProcessing = FALSE,
                  !.speakTimers = Append(@, text)]

\* A completion callback that re-opens capture itself, without the delay.
resumeListening_immediate(s) ==
    LET s1 == [s EXCEPT !.aiSpeaking = FALSE]
    IN IF s.stateRef.voiceActive THEN startListening(s1) ELSE s1

resumeListening(s) ==
    LET s1 == [s EXCEPT !.aiSpeaking = FALSE]
    IN IF s.stateRef.voiceActive
       THEN [s1 EXCEPT !.restartTimers = @ + 1]
       ELSE s1

\* A simulation effect whose cleanup clears nothing.
simulationEffect_noCleanup(s) ==
    IF s.activeTrip = "accepted" /\ s.userType = "passenger"
    THEN [s EXCEPT !.simTimers = @ + 1]
    ELSE s

\* The simulation effect when activeTrip or userType has changed: the cleanup
\* of its last run clears the interval that run created, then the effect
\* creates one if the trip is accepted and the user a passenger.
simulationEffect(s) ==
    LET created == IF s.stateRef.activeTrip = "accepted" /\ s.stateRef.userType = "passenger"
                   THEN 1 ELSE 0
        s1 == [s EXCEPT !.simTimers = @ - created]
    IN IF s.activeTrip = "accepted" /\ s.userType = "passenger"
       THEN [s1 EXCEPT !.simTimers = @ + 1]
       ELSE s1

\* The effects that run after a render: the simulation effect, the stateRef
\* sync and the heartbeat.
syncEffects(s) ==
    [simulationEffect(s) EXCEPT !.stateRef = Snapshot(s), !.processingRef = s.isProcessing,
              !.heartbeatRef = s.voiceActive]

----------------------------------------------------------------------------
(* Application functions the intent interpreter calls *)

submitRating(s) ==
    speak([s EXCEPT !.activeTrip = NullTrip, !.tripPosition = NoPosition,
                    !.tripRequest = EmptyRequest,
                    !.currentView = "passenger-dashboard"], Prompt)

\* A goBack that leaves every view for home.
goBackFrom_alwaysHome(s, view) ==
    [s EXCEPT !.currentView = "home", !.userType = NoUser]

\* The branches of goBack for a given view.
goBackFrom(s, view) ==
       CASE view \in {"passenger-register", "driver-register"} ->
              [s EXCEPT !.currentView = "home", !.userType = NoUser]
         [] view = "searching" ->
              [s EXCEPT !.currentView = "passenger-dashboard", !.activeTrip = NullTrip,
                        !.tripPosition = NoPosition]
         [] view = "driver-dashboard" ->
              [s EXCEPT !.currentView = "home", !.driverStatus = "offline",
                        !.userType = NoUser]
         [] view = "passenger-dashboard" ->
              [s EXCEPT !.currentView = "home", !.userType = NoUser]
         [] view = "rate-driver" -> submitRating(s)
         [] OTHER -> s

\* goBack takes the view from stateRef.current when it runs.
goBack(s) == goBackFrom(s, s.stateRef.currentView)

\* handleGetCurrentLocation up to its await; what awaits the position is
\* "pickup" for the button, "destination" for handleSetDestination.
handleGetCurrentLocation(s, awaiting) ==
    [s EXCEPT !.locationCalls = Append(@, awaiting)]

\* The setTripRequest of handleSetDestination (the query is the address).
setDestination(s) == [s EXCEPT !.tripRequest.destinationSet = TRUE]

handleSetDestination(s) ==
    IF ~s.stateRef.tripRequest.pickupSet
    THEN handleGetCurrentLocation(s, "destination")
    ELSE setDestination(s)

\* The geolocation request settles: the rest of handleGetCurrentLocation,
\* then the rest of a handleSetDestination that awaited it.
locationSettled(s, awaiting, ok) ==
    LET s1 == IF ok THEN [s EXCEPT !.tripRequest.pickupSet = TRUE] ELSE speak(s, Prompt)
    IN IF awaiting = "destination" THEN setDestination(s1) ELSE s1

\* A requestTrip that asks for the destination only.
requestTripWith_destinationOnly(s, request) ==
    IF ~request.destinationSet
    THEN speak(s, Prompt)
    ELSE [s EXCEPT !.activeTrip = "searching", !.currentView = "searching",
                   !.tripPosition = [NoPosition EXCEPT !.pickupLat = UserLocation.lat,
                                                       !.pickupLng = UserLocation.lng],
                   !.acceptTimers = @ + 1]

\* requestTrip for a given trip request.
requestTripWith(s, request) ==
    IF ~request.pickupSet \/ ~request.destinationSet
    THEN speak(s, Prompt)
    ELSE [s EXCEPT !.activeTrip = "searching", !.currentView = "searching",
                   !.tripPosition = [NoPosition EXCEPT !.pickupLat = UserLocation.lat,
                                                       !.pickupLng = UserLocation.lng],
                   !.acceptTimers = @ + 1]

\* requestTrip takes the trip request from stateRef.current when it runs.
requestTrip(s) == requestTripWith(s, s.stateRef.tripRequest)

DriverOffset == 5000   \* prev.pickupLat - 0.005

\* The 4 s timer of requestTrip.  With no trip left the updater has nothing
\* to mark accepted; the view change and the prompt are requested all the same.
tripAccepted(s) ==
    speak([s EXCEPT !.acceptTimers = @ - 1,
                    !.activeTrip = IF @ = NullTrip THEN NullTrip ELSE "accepted",
                    !.tripPosition =
                        IF s.activeTrip = NullTrip THEN @
                        ELSE [@ EXCEPT !.driverLat = s.tripPosition.pickupLat - DriverOffset,
                                       !.driverLng = s.tripPosition.pickupLng - DriverOffset],
                    !.currentView = "trip-active"], Prompt)

\* completeTrip as the passenger's trip view calls it.
completeTrip(s) ==
    IF s.userType = "passenger"
    THEN speak([s EXCEPT !.currentView = "rate-driver"], Prompt)
    ELSE speak([s EXCEPT !.activeTrip = NullTrip, !.tripPosition = NoPosition,
                         !.tripRequest = EmptyRequest,
                         !.currentView = "driver-dashboard"], Prompt)

\* Characters of the texts the interpreter cleans.
Digits == {"0", "1", "2", "3", "4", "5", "6", "7", "8", "9"}
LowerCase == << "a", "b", "c", "d", "e", "f", "g", "h", "i", "j", "k", "l", "m",
                "n", "o", "p", "q", "r", "s", "t", "u", "v", "w", "x", "y", "z" >>
UpperCase == << "A", "B", "C", "D", "E", "F", "G", "H", "I", "J", "K", "L", "M",
                "N", "O", "P", "Q", "R", "S", "T", "U", "V", "W", "X", "Y", "Z" >>
Letters == {LowerCase[i] : i \in DOMAIN LowerCase} \cup {UpperCase[i] : i \in DOMAIN UpperCase}

IsDigit(c) == c \in Digits                   \* not matched by \D
IsAlphanumeric(c) == c \in Letters \cup Digits \* not matched by [^a-zA-Z0-9]

\* String.prototype.toUpperCase on a text of letters and digits.
toUpperCase(text) ==
    [ i \in DOMAIN text |->
        IF \E k \in DOMAIN LowerCase : LowerCase[k] = text[i]
        THEN UpperCase[CHOOSE k \in DOMAIN LowerCase : LowerCase[k] = text[i]]
        ELSE text[i] ]

\* A phone cleaner that keeps the text as spoken.
cleanPhone_asSpoken(value) == value

\* data.value.replace(/\D/g, '')
cleanPhone(value) == SelectSeq(value, IsDigit)

\* A plate cleaner that does not change the case.
cleanPlate_keepsCase(value) == SelectSeq(value, IsAlphanumeric)

\* data.value.replace(/[^a-zA-Z0-9]/g, '').toUpperCase()
cleanPlate(value) == toUpperCase(SelectSeq(value, IsAlphanumeric))

\* A SET_PASSENGER_NAME case with no test of the view.
setPassengerName_anyView(s, data, currentState) ==
    [s EXCEPT !.passengerProfile.name = data.value]

\* case 'SET_PASSENGER_NAME'
setPassengerName(s, data, currentState) ==
    IF currentState.currentView = "passenger-register" \/ currentState.currentView = "home"
    THEN LET s1 == IF currentState.currentView = "home"
                   THEN [s EXCEPT !.userType = "passenger",
                                  !.currentView = "passenger-register"]
                   ELSE s
         IN [s1 EXCEPT !.passengerProfile.name = data.value]
    ELSE s

\* case 'SET_DRIVER_NAME'
setDriverName(s, data, currentState) ==
    IF currentState.currentView = "driver-register" \/ currentState.currentView = "home"
    THEN LET s1 == IF currentState.currentView = "home"
                   THEN [s EXCEPT !.userType = "driver", !.currentView = "driver-register"]
                   ELSE s
         IN [s1 EXCEPT !.driverProfile.name = data.value]
    ELSE s

\* A CONFIRM_TRIP case with no test of the context.
confirmTrip_unguarded(s, currentState) == requestTrip(s)

\* case 'CONFIRM_TRIP'
confirmTrip(s, currentState) ==
    IF currentState.currentView = "passenger-dashboard"
          /\ currentState.tripRequest.destinationSet
    THEN requestTrip(s)
    ELSE s

\* The switch of getGeminiResponse: data is the parsed response, currentState
\* the snapshot object the call was given.
executeAction(s, data, currentState) ==
    CASE data.action = "NAVIGATE_PASSENGER_REG" ->
           [s EXCEPT !.userType = "passenger", !.currentView = "passenger-register"]
      [] data.action = "NAVIGATE_DRIVER_REG" ->
           [s EXCEPT !.userType = "driver", !.currentView = "driver-register"]
      [] data.action = "SET_PASSENGER_NAME" -> setPassengerName(s, data, currentState)
      [] data.action = "SET_DRIVER_NAME" -> setDriverName(s, data, currentState)
      [] data.action = "SET_PASSENGER_PHONE" ->
           [s EXCEPT !.passengerProfile.phone = cleanPhone(data.value)]
      [] data.action = "SET_DRIVER_PHONE" ->
           [s EXCEPT !.driverProfile.phone = cleanPhone(data.value)]
      [] data.action = "SET_DRIVER_PLATE" ->
           [s EXCEPT !.driverProfile.plate = cleanPlate(data.value)]
      [] data.action = "NAVIGATE_DESTINATION" ->
           handleSetDestination(
               IF currentState.currentView = "passenger-register"
               THEN [s EXCEPT !.currentView = "passenger-dashboard"]
               ELSE s)
      [] data.action = "CONFIRM_TRIP" -> confirmTrip(s, currentState)
      [] data.action = "CANCEL" -> goBack(s)
      [] OTHER -> s

\* The switch as it would run if every function it calls took the view and
\* the trip request from currentState.
executeOnSnapshot(s, data, currentState) ==
    CASE data.action = "CANCEL" -> goBackFrom(s, currentState.currentView)
      [] data.action = "CONFIRM_TRIP" ->
           IF currentState.currentView = "passenger-dashboard"
                 /\ currentState.tripRequest.destinationSet
           THEN requestTripWith(s, currentState.tripRequest)
           ELSE s
      [] OTHER -> executeAction(s, data, currentState)

\* An interpreter that acts and leaves the prompt unspoken.
applyIntent_silent(s, data, currentState) == executeAction(s, data, currentState)

\* An interpreter that speaks the intent's speech as it is.
applyIntent_echo(s, data, currentState) ==
    speak(executeAction(s, data, currentState), data.speech)

\* getGeminiResponse after a response that parses: act, then speak.
applyIntent(s, data, currentState) ==
    speak(executeAction(s, data, currentState),
          IF data.speech = "" THEN Entendido ELSE data.speech)

\* The fields of its currentState argument that getGeminiResponse reads.
DispatchContext(ref) ==
    [ currentView |-> ref.currentView, userType |-> ref.userType,
      passengerProfile |-> ref.passengerProfile, driverProfile |-> ref.driverProfile,
      tripRequest |-> ref.tripRequest ]

\* processVoiceCommand up to its await: the call is made with stateRef.current.
processVoiceCommand(s) ==
    [s EXCEPT !.isProcessing = TRUE, !.calls = Append(@, DispatchContext(s.stateRef))]

\* A catch block that voices the error.
intentFailed_apologises(s) == speak(s, Prompt)

\* A catch block that calls the intent service again.
intentFailed_retries(s) ==
    [s EXCEPT !.calls = Append(@, DispatchContext(s.stateRef))]

\* The catch block of processVoiceCommand.
intentFailed(s) ==
    LET s1 == [s EXCEPT !.isProcessing = FALSE]
    IN IF s.stateRef.voiceActive THEN startListening(s1) ELSE s1

toggleVoiceAssistant(s, newState) ==
    IF newState
    THEN speak([s EXCEPT !.voiceActive = newState], Greeting)
    ELSE [stopListening(synthCancel([s EXCEPT !.voiceActive = newState]))
            EXCEPT !.aiSpeaking = FALSE]

----------------------------------------------------------------------------
(* Initial state: the component as constructed, effects run once *)

Init ==
    /\ isListening = FALSE
    /\ isProcessing = FALSE
    /\ aiSpeaking = FALSE
    /\ voiceActive = FALSE
    /\ userType = NoUser
    /\ currentView = "home"
    /\ passengerProfile = NewPassenger
    /\ driverProfile = NewDriver
    /\ driverStatus = "offline"
    /\ activeTrip = NullTrip
    /\ tripRequest = EmptyRequest
    /\ stateRef = [currentView |-> "home", userType |-> NoUser,
                   driverProfile |-> NewDriver, passengerProfile |-> NewPassenger,
                   tripRequest |-> EmptyRequest, activeTrip |-> NullTrip,
                   aiSpeaking |-> FALSE, voiceActive |-> FALSE, isListening |-> FALSE]
    /\ processingRef = FALSE
    /\ heartbeatRef = FALSE
    /\ recState = "idle"
    /\ recStartPending = FALSE
    /\ synthQueue = <<>>
    /\ synthCancelled = 0
    /\ speakTimers = <<>>
    /\ restartTimers = 0
    /\ calls = <<>>
    /\ acceptTimers = 0
    /\ locationCalls = <<>>
    /\ lastEvent = "other"
    /\ tripPosition = NoPosition
    /\ simTimers = 0

\* Every pending-work collection stays within the bounds.
Fits(s) ==
    /\ Len(s.speakTimers) <= MaxSpeakTimers
    /\ s.restartTimers <= MaxRestartTimers
    /\ s.synthCancelled <= MaxCancelled
    /\ Len(s.calls) <= MaxCalls

\* The handlers whose runs the history variable records.
Observed == {"IntentFailed", "RecEnd", "Disable", "NotAllowed", "HeartbeatStart",
             "RecResultBlank"}

Do(s, ev) ==
    /\ Fits(s)
    /\ Commit(s)
    /\ lastEvent' = IF ev \in Observed THEN ev ELSE "other"

----------------------------------------------------------------------------
(* Actions *)

\* The user taps the microphone button.  A click is a discrete event: React
\* renders and runs the effects before the next event.
ToggleVoice ==
    \E newState \in {~voiceActive} :
        Do(syncEffects(toggleVoiceAssistant(Cur, newState)),
           IF newState THEN "Enable" ELSE "Disable")

\* A render commits and its effects run (stateRef sync, heartbeat effect).
SyncEffect ==
    /\ syncEffects(Cur) # Cur
    /\ Do(syncEffects(Cur), "SyncEffect")

\* A heartbeat whose test of the Listening flag is inverted.
heartbeatTick_inverted(s) ==
    IF s.stateRef.isListening /\ ~s.stateRef.aiSpeaking /\ ~s.processingRef
    THEN startListening(s)
    ELSE s

\* The heartbeat interval fires.
heartbeatTick(s) ==
    IF ~s.stateRef.isListening /\ ~s.stateRef.aiSpeaking /\ ~s.processingRef
    THEN startListening(s)
    ELSE s

HeartbeatTick ==
    /\ heartbeatRef
    /\ Do(heartbeatTick(Cur),
          IF heartbeatTick(Cur).recState # recState THEN "HeartbeatStart"
          ELSE "HeartbeatTick")

\* A 50 ms timer of speak() fires: the utterance is handed to the adapter.
SpeakTimerFire ==
    /\ speakTimers # <<>>
    /\ Do([Cur EXCEPT !.speakTimers = Tail(@),
                      !.synthQueue = Append(@, Head(speakTimers))], "SpeakTimerFire")

\* The utterance being spoken ends or errors: its callback runs.
SynthEnd ==
    /\ synthQueue # <<>>
    /\ Do(resumeListening([Cur EXCEPT !.synthQueue = Tail(@)]), "SynthEnd")

\* The end/error callback of a cancelled utterance runs.
SynthCancelledCallback ==
    /\ synthCancelled > 0
    /\ Do(resumeListening([Cur EXCEPT !.synthCancelled = @ - 1]), "SynthCancelledCallback")

\* A 200 ms restart timer fires.
RestartTimerFire ==
    /\ restartTimers > 0
    /\ Do(startListening([Cur EXCEPT !.restartTimers = @ - 1]), "RestartTimerFire")

\* Another caller of speak(): a button handler or the trip-accepted timer.
UiSpeak ==
    /\ Len(speakTimers) < MaxSpeakTimers
    /\ Do(speak(Cur, Prompt), "UiSpeak")

\* recognition.onstart
RecStart ==
    /\ recStartPending
    /\ recState \in {"running", "stopping"}
    /\ Do([Cur EXCEPT !.recStartPending = FALSE, !.isListening = TRUE], "RecStart")

\* The white space String.prototype.trim removes, as far as a transcript has any.
WhiteSpace == {" ", "\t", "\n"}

RECURSIVE trimStart(_)
trimStart(text) ==
    IF text # <<>> /\ Head(text) \in WhiteSpace THEN trimStart(Tail(text)) ELSE text

RECURSIVE trimEnd(_)
trimEnd(text) ==
    IF text # <<>> /\ text[Len(text)] \in WhiteSpace
    THEN trimEnd(SubSeq(text, 1, Len(text) - 1))
    ELSE text

trim(text) == trimEnd(trimStart(text))

\* An onresult that tests the transcript as delivered.
onresult_untrimmed(s, transcript) ==
    IF Len(transcript) > 0 THEN processVoiceCommand(s) ELSE s

\* recognition.onresult
onresult(s, transcript) ==
    IF Len(trim(transcript)) > 0 THEN processVoiceCommand(s) ELSE s

\* What the recognition adapter delivers as a transcript.
Transcripts ==
    { << "h", "o", "l", "a" >>, << " ", "s", "i", " " >>,
      << >>, << " " >>, << "\t", " ", "\n" >> }

IsBlank(transcript) == \A i \in DOMAIN transcript : transcript[i] \in WhiteSpace

\* recognition.onresult with a transcript that is not blank: single-utterance
\* mode, the session ends after its result.
RecResult ==
    /\ recState \in {"running", "stopping"}
    /\ ~recStartPending
    /\ \E transcript \in Transcripts :
          /\ ~IsBlank(transcript)
          /\ Do(onresult([Cur EXCEPT !.recState = "ending"], transcript), "RecResult")

\* recognition.onresult with a blank transcript.
RecResultBlank ==
    /\ recState \in {"running", "stopping"}
    /\ ~recStartPending
    /\ \E transcript \in Transcripts :
          /\ IsBlank(transcript)
          /\ Do(onresult([Cur EXCEPT !.recState = "ending"], transcript), "RecResultBlank")

\* recognition.onerror: the session is over, its end event follows.
RecError ==
    /\ recState \in {"running", "stopping"}
    /\ \E code \in {"no-speech", "not-allowed", "network"} :
          LET s == [Cur EXCEPT !.recState = "ending", !.recStartPending = FALSE]
          IN Do(IF code # "no-speech" THEN [s EXCEPT !.isListening = FALSE] ELSE s,
                IF code = "not-allowed" THEN "NotAllowed" ELSE "RecError")

\* recognition.onend
RecEnd ==
    /\ recState # "idle"
    /\ ~recStartPending
    /\ Do([Cur EXCEPT !.recState = "idle", !.isListening = FALSE], "RecEnd")

\* The session stops without an end event being delivered.
RecEndLost ==
    /\ recState # "idle"
    /\ Do([Cur EXCEPT !.recState = "idle", !.recStartPending = FALSE], "RecEndLost")

\* The intent service answers with a response that parses.
IntentResolved ==
    /\ calls # <<>>
    /\ \E data \in VoiceIntents :
          Do(applyIntent([Cur EXCEPT !.calls = Tail(@)], data, Head(calls)), "IntentResolved")

\* The call rejects, or the response is empty or does not parse.
IntentFailed ==
    /\ calls # <<>>
    /\ Do(intentFailed([Cur EXCEPT !.calls = Tail(@)]), "IntentFailed")

Next ==
    \/ ToggleVoice
    \/ SyncEffect
    \/ HeartbeatTick
    \/ SpeakTimerFire
    \/ SynthEnd
    \/ SynthCancelledCallback
    \/ RestartTimerFire
    \/ UiSpeak
    \/ RecStart
    \/ RecResult
    \/ RecResultBlank
    \/ RecError
    \/ RecEnd
    \/ RecEndLost
    \/ IntentResolved
    \/ IntentFailed

Spec == Init /\ [][Next]_vars

\* What the event loop guarantees: a committed render runs its effects, a
\* scheduled timer fires, the synthesis adapter finishes or reports every
\* utterance, and the recognition adapter delivers the events of a session
\* it has not dropped.  The user, the intent service and the loss of an end
\* event are not fair.
Fairness ==
    /\ WF_vars(SyncEffect)
    /\ WF_vars(HeartbeatTick)
    /\ WF_vars(SpeakTimerFire)
    /\ WF_vars(SynthEnd)
    /\ WF_vars(SynthCancelledCallback)
    /\ WF_vars(RestartTimerFire)
    /\ WF_vars(RecStart)
    /\ WF_vars(RecEnd)

\* The voice loop when nothing is said: the user toggles the assistant, the
\* adapters and the timers run, no transcript is processed and no other
\* caller of speak() interferes.
WatchdogNext ==
    \/ ToggleVoice
    \/ SyncEffect
    \/ HeartbeatTick
    \/ SpeakTimerFire
    \/ SynthEnd
    \/ SynthCancelledCallback
    \/ RestartTimerFire
    \/ RecStart
    \/ RecResultBlank
    \/ RecError
    \/ RecEnd
    \/ RecEndLost

WatchdogSpec == Init /\ [][WatchdogNext]_vars /\ Fairness

----------------------------------------------------------------------------
(* The application around the voice session: buttons, geolocation, trips *)

FitsApp(s) ==
    /\ Len(s.speakTimers) <= MaxBurst
    /\ s.restartTimers <= MaxRestartTimers
    /\ s.synthCancelled <= MaxCancelled
    /\ Len(s.calls) <= MaxCalls
    /\ s.acceptTimers <= MaxAcceptTimers
    /\ Len(s.locationCalls) <= MaxLocating

\* The effects of the last render have run.
Rendered == syncEffects(Cur) = Cur

\* In the application specification a render commits and runs its effects
\* before the next event is handled.
DoApp(s, ev) ==
    /\ Rendered
    /\ FitsApp(s)
    /\ Commit(s)
    /\ lastEvent' = IF ev \in Observed THEN ev ELSE "other"

RegisterViews == {"passenger-register", "driver-register"}

\* The two role buttons of the home view.
UiSelectRole ==
    /\ currentView = "home"
    /\ \E role \in DispatchRoles :
          DoApp(syncEffects([Cur EXCEPT !.userType = role,
                   !.currentView = IF role = "driver" THEN "driver-register"
                                   ELSE "passenger-register"]), "UiSelectRole")

\* A back / log-out / cancel-search button.
UiGoBack ==
    /\ currentView \in RegisterViews \cup {"passenger-dashboard", "driver-dashboard", "searching"}
    /\ DoApp(syncEffects(goBack(Cur)), "UiGoBack")

\* The name field of a register view.
UiTypeName ==
    /\ currentView \in RegisterViews
    /\ \E name \in {"Ana"} :
          DoApp(syncEffects(IF currentView = "driver-register"
                            THEN [Cur EXCEPT !.driverProfile.name = name]
                            ELSE [Cur EXCEPT !.passengerProfile.name = name]), "UiTypeName")

\* The continue button of a register view.
UiContinue ==
    /\ currentView \in RegisterViews
    /\ LET isDriver == currentView = "driver-register"
           profile == IF isDriver THEN driverProfile ELSE passengerProfile
       IN DoApp(syncEffects(
                 IF profile.name # ""
                 THEN [Cur EXCEPT !.currentView = IF isDriver THEN "driver-dashboard"
                                                  ELSE "passenger-dashboard"]
                 ELSE speak(Cur, Prompt)), "UiContinue")

UiGetLocation ==
    /\ currentView = "passenger-dashboard"
    /\ DoApp(syncEffects(handleGetCurrentLocation(Cur, "pickup")), "UiGetLocation")

UiSetDestination ==
    /\ currentView = "passenger-dashboard"
    /\ DoApp(syncEffects(handleSetDestination(Cur)), "UiSetDestination")

\* The geolocation promise settles.
LocationSettled ==
    /\ locationCalls # <<>>
    /\ \E ok \in BOOLEAN :
          DoApp(locationSettled([Cur EXCEPT !.locationCalls = Tail(@)],
                                Head(locationCalls), ok), "LocationSettled")

\* The request button, enabled once a destination is set.
UiRequestTrip ==
    /\ currentView = "passenger-dashboard"
    /\ tripRequest.destinationSet
    /\ DoApp(syncEffects(requestTrip(Cur)), "UiRequestTrip")

TripAcceptedTimer ==
    /\ acceptTimers > 0
    /\ DoApp(tripAccepted(Cur), "TripAcceptedTimer")

UiCompleteTrip ==
    /\ currentView = "trip-active"
    /\ DoApp(syncEffects(completeTrip(Cur)), "UiCompleteTrip")

UiSubmitRating ==
    /\ currentView = "rate-driver"
    /\ DoApp(syncEffects(submitRating(Cur)), "UiSubmitRating")

\* The intent service answers a call with any of the actions.
IntentDispatched ==
    /\ calls # <<>>
    /\ \E data \in DispatchIntents :
          DoApp(applyIntent([Cur EXCEPT !.calls = Tail(@)], data, Head(calls)),
                "IntentDispatched")

\* The events of the voice session, each handled after the last render
\* settled; the assistant is switched on and stays on.
EnableVoice == Rendered /\ ~voiceActive /\ ToggleVoice
SettledHeartbeatTick == Rendered /\ HeartbeatTick
SettledSpeakTimerFire == Rendered /\ SpeakTimerFire
SettledSynthEnd == Rendered /\ SynthEnd
SettledSynthCancelledCallback == Rendered /\ SynthCancelledCallback
SettledRestartTimerFire == Rendered /\ RestartTimerFire
SettledRecStart == Rendered /\ RecStart
SettledRecResult == Rendered /\ RecResult
SettledRecEnd == Rendered /\ RecEnd

DispatchNext ==
    \/ EnableVoice
    \/ SyncEffect
    \/ SettledHeartbeatTick
    \/ SettledSpeakTimerFire
    \/ SettledSynthEnd
    \/ SettledSynthCancelledCallback
    \/ SettledRestartTimerFire
    \/ SettledRecStart
    \/ SettledRecResult
    \/ SettledRecEnd
    \/ UiSelectRole
    \/ UiGoBack
    \/ UiSetDestination
    \/ LocationSettled
    \/ UiRequestTrip
    \/ TripAcceptedTimer
    \/ UiCompleteTrip
    \/ UiSubmitRating
    \/ IntentDispatched

DispatchSpec == Init /\ [][DispatchNext]_vars

----------------------------------------------------------------------------
(* The position simulation of an accepted trip.  Coordinates are fixed-point *)
(* numbers, one unit a millionth of a degree; a quotient is truncated.       *)

Speed == 500             \* const speed = 0.0005
ArrivalEpsilon == 500    \* distance < 0.0005

Abs(x) == IF x < 0 THEN -x ELSE x
Sgn(x) == IF x < 0 THEN -1 ELSE IF x > 0 THEN 1 ELSE 0

\* The integer part of Math.sqrt(n), by bisection between lo and hi.
RECURSIVE SqrtBetween(_, _, _)
SqrtBetween(n, lo, hi) ==
    IF hi - lo <= 1 THEN lo
    ELSE LET mid == (lo + hi) \div 2
         IN IF mid * mid <= n THEN SqrtBetween(n, mid, hi) ELSE SqrtBetween(n, lo, mid)
Sqrt(n) == SqrtBetween(n, 0, 46340)

\* dx*dx + dy*dy of the tick.
Distance2(prev) ==
    LET dy == prev.pickupLat - prev.driverLat
        dx == prev.pickupLng - prev.driverLng
    IN dx * dx + dy * dy

\* The updater the simulation interval passes to setActiveTrip, on a trip
\* that is not null.  Sin(atan2(dy, dx)) is dy / distance, cos is dx / distance.
simTick(prev) ==
    IF prev.driverLat = 0 \/ prev.driverLng = 0
    THEN prev
    ELSE LET dy == prev.pickupLat - prev.driverLat
             dx == prev.pickupLng - prev.driverLng
             distance == Sqrt(dx * dx + dy * dy)
         IN IF dx * dx + dy * dy < ArrivalEpsilon * ArrivalEpsilon
            THEN [prev EXCEPT !.driverLat = prev.pickupLat, !.driverLng = prev.pickupLng]
            ELSE LET moveY == Sgn(dy) * ((Speed * Abs(dy)) \div distance)
                     moveX == Sgn(dx) * ((Speed * Abs(dx)) \div distance)
                 IN [prev EXCEPT !.driverLat = @ + moveY, !.driverLng = @ + moveX]

\* Pickup points and the offsets of the driver's position from the pickup
\* point the simulation is started with; requestTrip places the driver 0.005
\* south and 0.005 west of the pickup point.
SimPickups ==
    { [lat |-> 4605000, lng |-> -74075000], [lat |-> 5000, lng |-> -74075000] }
SimOffsets == {-5000, -700, 0, 300, 5000}

\* A passenger's trip has just been accepted.
SimInit ==
    /\ isListening = FALSE
    /\ isProcessing = FALSE
    /\ aiSpeaking = FALSE
    /\ voiceActive = FALSE
    /\ userType = "passenger"
    /\ currentView = "trip-active"
    /\ passengerProfile = NewPassenger
    /\ driverProfile = NewDriver
    /\ driverStatus = "offline"
    /\ activeTrip = "accepted"
    /\ tripRequest = [pickupSet |-> TRUE, destinationSet |-> TRUE]
    /\ stateRef = [currentView |-> "trip-active", userType |-> "passenger",
                   driverProfile |-> NewDriver, passengerProfile |-> NewPassenger,
                   tripRequest |-> [pickupSet |-> TRUE, destinationSet |-> TRUE],
                   activeTrip |-> "accepted",
                   aiSpeaking |-> FALSE, voiceActive |-> FALSE, isListening |-> FALSE]
    /\ processingRef = FALSE
    /\ heartbeatRef = FALSE
    /\ recState = "idle"
    /\ recStartPending = FALSE
    /\ synthQueue = <<>>
    /\ synthCancelled = 0
    /\ speakTimers = <<>>
    /\ restartTimers = 0
    /\ calls = <<>>
    /\ acceptTimers = 0
    /\ locationCalls = <<>>
    /\ lastEvent = "other"
    /\ simTimers = 1
    /\ \E pickup \in SimPickups : \E offLat \in SimOffsets : \E offLng \in SimOffsets :
          tripPosition = [driverLat |-> pickup.lat - offLat, driverLng |-> pickup.lng - offLng,
                          pickupLat |-> pickup.lat, pickupLng |-> pickup.lng]

\* The callback of the simulation interval: setActiveTrip with the updater.
simulationTick(s) ==
    IF s.activeTrip = NullTrip THEN s
    ELSE [s EXCEPT !.tripPosition = simTick(@)]

\* The 1 s simulation interval fires; the render it causes re-runs the effect.
SimTick ==
    /\ Rendered
    /\ simTimers > 0
    /\ Commit(syncEffects(simulationTick(Cur)))
    /\ UNCHANGED lastEvent

SimNext == SimTick

SimSpec == SimInit /\ [][SimNext]_vars

\* The same loop with the application's other prompts spoken at any time.
PromptNext ==
    \/ WatchdogNext
    \/ UiSpeak

PromptSpec == Init /\ [][PromptNext]_vars /\ Fairness

\* The whole voice session under the same guarantees: transcripts arrive and
\* the intent service answers or fails when it will, if it ever does.
SessionSpec == Init /\ [][Next]_vars /\ Fairness

----------------------------------------------------------------------------
(* Phases and adapter activity *)

Capturing == recState = "running"
SynthesisActive == synthQueue # <<>>
Idle == ~isListening /\ ~isProcessing /\ ~aiSpeaking
Synced == stateRef = Snapshot(Cur) /\ processingRef = isProcessing

\* C1: the Listening flag and the Speaking flag are never both true.
C1_ListeningExcludesSpeaking == ~(isListening /\ aiSpeaking)

\* C2: the capture adapter is never capturing while the synthesis adapter
\* holds an utterance (speaking or pending).
C2_CaptureExcludesSynthesis == ~(Capturing /\ SynthesisActive)

\* C3: while the Processing flag is true, neither the Listening flag nor the
\* Speaking flag is true.
C3_ProcessingExcludesBoth == isProcessing => (~isListening /\ ~aiSpeaking)

\* The application state a dispatch can change.
AppState == <<userType, currentView, passengerProfile, driverProfile, driverStatus,
              activeTrip, tripRequest>>

\* A step that makes a start-listening request: the heartbeat, the restart
\* timer, or the catch block of a failed intent call.
StartRequest == HeartbeatTick \/ RestartTimerFire \/ IntentFailed

\* C4: a start-listening request made while Speaking, or Processing, or while
\* capture is active, changes nothing of the voice session (a failed intent
\* call clears Processing before it makes its request).
C4_StartRequestRejected ==
    [][(StartRequest /\ (aiSpeaking \/ recState # "idle" \/ (isProcessing /\ ~IntentFailed)))
          => (recState' = recState /\ isListening' = isListening)]_vars

\* C5: a heartbeat tick in a state where the controller is Speaking or
\* Processing does not start capture.
C5_HeartbeatRespectsPhase ==
    [][(HeartbeatTick /\ (aiSpeaking \/ isProcessing)) => recState' = recState]_vars

\* C6: the end of a capture session clears the Listening flag, and with voice
\* enabled an Idle controller whose capture session has ended is put back in
\* Listening by the heartbeat (unless voice is disabled first).
C6_IdleLeadsToListening ==
    /\ [][RecEnd => ~isListening']_vars
    /\ (voiceActive /\ Idle /\ recState = "idle") ~> (isListening \/ ~voiceActive)

C6_Witness ==
    /\ lastEvent = "RecEnd"
    /\ voiceActive /\ Idle /\ heartbeatRef /\ calls = <<>>

\* C7: when the capture session has stopped without its end event, so that
\* the session claims Listening while nothing is captured, the watchdog
\* eventually issues a new capture start (or voice is disabled).
C7_LostEndRecovered ==
    (voiceActive /\ isListening /\ recState = "idle") ~> (recState # "idle" \/ ~voiceActive)

\* C8: disable() leaves the controller Idle with voice off, capture stopped
\* and no synthesis in flight, whatever the phase it is called in.
C8_DisableResetsToIdle ==
    [][(ToggleVoice /\ voiceActive)
          => (/\ ~voiceActive' /\ ~isListening' /\ ~isProcessing' /\ ~aiSpeaking'
              /\ recState' # "running" /\ synthQueue' = <<>>)]_vars

\* The utterances the synthesis adapter holds.
Held == {synthQueue[i] : i \in 1..Len(synthQueue)}

\* C9: after enable then disable, no heartbeat timer is scheduled, the phase
\* is back to Idle and stays so, and the greeting is never handed to the
\* synthesis adapter: while voice is disabled the adapter never holds it.
C9_DisabledRoundTripIsQuiet ==
    ~voiceActive =>
        (/\ ~heartbeatRef
         /\ Greeting \notin Held
         /\ lastEvent = "Disable" => (~isListening /\ ~aiSpeaking))

C11_ProcessingEnds == isProcessing ~> ~isProcessing

\* C12: after the capture adapter reports 'not-allowed', voice is disabled
\* and the heartbeat that would start capture again is no longer scheduled.
C12_PermissionDeniedIsTerminal ==
    lastEvent = "NotAllowed" => (~voiceActive /\ ~heartbeatRef)

\* A completion (end or error) callback of an utterance runs.
SynthesisCompletes == SynthEnd \/ SynthCancelledCallback

AppStateOf(s) ==
    <<s.userType, s.currentView, s.passengerProfile, s.driverProfile, s.driverStatus,
      s.activeTrip, s.tripRequest>>

\* C14: when the intent service answers a call, the application state that
\* results is the one the dispatch yields when its guards and the functions
\* it calls (go-back, trip creation) are evaluated on the snapshot the call
\* was made with.
C14_DispatchOnSnapshot ==
    [][\A data \in DispatchIntents :
          (/\ calls # <<>>
           /\ Commit(applyIntent([Cur EXCEPT !.calls = Tail(@)], data, Head(calls))))
          => (/\ AppState' = AppStateOf(executeOnSnapshot(Cur, data, Head(calls)))
              /\ acceptTimers' = executeOnSnapshot(Cur, data, Head(calls)).acceptTimers)]_vars

\* C15: while the intent call of an accepted transcript is in flight, capture
\* is not opened again and no further intent call is started.
C15_CycleIsSequential ==
    [][calls # <<>> =>
          (/\ recState' = "running" => recState = "running"
           /\ Len(calls') <= Len(calls))]_vars

\* C16: handling one answer of the intent service makes exactly one speak
\* request, the one for the answer's prompt.
C16_DispatchSpeaksOnce ==
    [][IntentDispatched => Len(speakTimers') = Len(speakTimers) + 1]_vars

\* C17: the synthesis adapter never holds more than one utterance (the one
\* speaking plus those queued).
C17_OneUtteranceHeld == Len(synthQueue) <= 1

\* C18: an accepted transcript starts exactly one intent-service call, nothing
\* else starts one, and an answer or a failure only removes the call it ends:
\* no call is issued again.
C18_OneCallPerTranscript ==
    [][/\ RecResult => Len(calls') = Len(calls) + 1
       /\ Len(calls') > Len(calls) => RecResult
       /\ (IntentFailed \/ IntentResolved) => calls' = Tail(calls)]_vars

C18_Witness ==
    /\ lastEvent = "IntentFailed"
    /\ calls = <<>> /\ synthQueue = <<>> /\ restartTimers = 0

\* C19: with voice enabled, the controller Idle, the last render settled and
\* no capture session, a heartbeat tick starts capture and sets Listening; a
\* tick that finds a capture session (just started, running or closing)
\* starts nothing and leaves the Listening flag as it is.
C19_HeartbeatStartsOnce ==
    [][HeartbeatTick =>
          (/\ (voiceActive /\ Idle /\ Synced /\ recState = "idle")
                  => (recState' = "running" /\ isListening')
           /\ recState # "idle"
                  => (/\ recState' = recState /\ recStartPending' = recStartPending
                      /\ isListening' = isListening))]_vars

C19_Witness ==
    /\ lastEvent = "HeartbeatStart"
    /\ voiceActive /\ isListening /\ recState = "running" /\ recStartPending

\* C20: at every position the simulation reaches, the tick behaves as
\* follows: if the driver is at least the arrival epsilon from the target,
\* the tick strictly decreases the distance and does not pass the target on
\* either axis; if the driver is closer than the epsilon, the tick puts the
\* driver exactly on the target, where every later tick leaves it.
C20_TickApproachesThenSnaps ==
    LET prev == tripPosition
        next == simTick(tripPosition)
    IN /\ Distance2(prev) >= ArrivalEpsilon * ArrivalEpsilon =>
             (/\ Distance2(next) < Distance2(prev)
              /\ Sgn(next.pickupLat - next.driverLat)
                    \in {0, Sgn(prev.pickupLat - prev.driverLat)}
              /\ Sgn(next.pickupLng - next.driverLng)
                    \in {0, Sgn(prev.pickupLng - prev.driverLng)})
       /\ Distance2(prev) < ArrivalEpsilon * ArrivalEpsilon =>
             (/\ next.driverLat = prev.pickupLat /\ next.driverLng = prev.pickupLng
              /\ simTick(next) = next)

----------------------------------------------------------------------------
(* The intent interpreter, answered in every view *)

\* The application states the assistant is listening in, one or more per view.
ListeningStates ==
    { [currentView |-> "home", userType |-> NoUser, activeTrip |-> NullTrip,
       tripRequest |-> EmptyRequest, driverStatus |-> "offline"],
      [currentView |-> "passenger-register", userType |-> "passenger", activeTrip |-> NullTrip,
       tripRequest |-> EmptyRequest, driverStatus |-> "offline"],
      [currentView |-> "driver-register", userType |-> "driver", activeTrip |-> NullTrip,
       tripRequest |-> EmptyRequest, driverStatus |-> "offline"],
      [currentView |-> "passenger-dashboard", userType |-> "passenger", activeTrip |-> NullTrip,
       tripRequest |-> EmptyRequest, driverStatus |-> "offline"],
      [currentView |-> "passenger-dashboard", userType |-> "passenger", activeTrip |-> NullTrip,
       tripRequest |-> [pickupSet |-> TRUE, destinationSet |-> FALSE],
       driverStatus |-> "offline"],
      [currentView |-> "passenger-dashboard", userType |-> "passenger", activeTrip |-> NullTrip,
       tripRequest |-> [pickupSet |-> TRUE, destinationSet |-> TRUE],
       driverStatus |-> "offline"],
      [currentView |-> "passenger-dashboard", userType |-> "passenger", activeTrip |-> NullTrip,
       tripRequest |-> [pickupSet |-> FALSE, destinationSet |-> TRUE],
       driverStatus |-> "offline"],
      [currentView |-> "driver-dashboard", userType |-> "driver", activeTrip |-> NullTrip,
       tripRequest |-> EmptyRequest, driverStatus |-> "offline"],
      [currentView |-> "driver-dashboard", userType |-> "driver", activeTrip |-> NullTrip,
       tripRequest |-> EmptyRequest, driverStatus |-> "online"],
      [currentView |-> "searching", userType |-> "passenger", activeTrip |-> "searching",
       tripRequest |-> [pickupSet |-> TRUE, destinationSet |-> TRUE],
       driverStatus |-> "offline"],
      [currentView |-> "trip-active", userType |-> "passenger", activeTrip |-> "accepted",
       tripRequest |-> [pickupSet |-> TRUE, destinationSet |-> TRUE],
       driverStatus |-> "offline"],
      [currentView |-> "rate-driver", userType |-> "passenger", activeTrip |-> "accepted",
       tripRequest |-> [pickupSet |-> TRUE, destinationSet |-> TRUE],
       driverStatus |-> "offline"] }

\* Profiles as registered, or not yet.
PassengerProfiles ==
    { NewPassenger, [name |-> "Ana", phone |-> << "3", "1", "5" >>] }
DriverProfiles ==
    { NewDriver, [name |-> "Luis", phone |-> << "3", "0", "0" >>,
                  plate |-> << "A", "B", "C", "1", "2", "3" >>] }

\* The values of the phone and plate intents, as the service transcribes them.
SpokenTexts ==
    { << "3", "1", "0", " ", "5", "5", "5", " ", "9", "9", "9", "9" >>,
      << "x", " ", "y", " ", "z", " ", "5", "5", "5" >>,
      << "+", "5", "7", "-", "3", "a" >>,
      << "k", "m", " ", "4", "Z" >>,
      << "-", " " >>,
      << >> }

TextIntents ==
    { [action |-> a, value |-> v, speech |-> Prompt] :
          a \in {"SET_PASSENGER_PHONE", "SET_DRIVER_PHONE", "SET_DRIVER_PLATE"},
          v \in SpokenTexts }

WordIntents ==
    { [action |-> a, value |-> "Ana", speech |-> p] :
          a \in {"NAVIGATE_PASSENGER_REG", "NAVIGATE_DRIVER_REG", "SET_PASSENGER_NAME",
                 "SET_DRIVER_NAME", "NAVIGATE_DESTINATION", "CONFIRM_TRIP", "CANCEL",
                 "NONE", "", "OPEN_SETTINGS", "cancel"},
          p \in {Prompt, ""} }

\* The assistant is on and capturing, in any view.
InterpreterInit ==
    \E v \in ListeningStates : \E pp \in PassengerProfiles : \E dp \in DriverProfiles :
        /\ isListening = TRUE
        /\ isProcessing = FALSE
        /\ aiSpeaking = FALSE
        /\ voiceActive = TRUE
        /\ userType = v.userType
        /\ currentView = v.currentView
        /\ passengerProfile = pp
        /\ driverProfile = dp
        /\ driverStatus = v.driverStatus
        /\ activeTrip = v.activeTrip
        /\ tripRequest = v.tripRequest
        /\ stateRef = [currentView |-> v.currentView, userType |-> v.userType,
                       driverProfile |-> dp, passengerProfile |-> pp,
                       tripRequest |-> v.tripRequest, activeTrip |-> v.activeTrip,
                       aiSpeaking |-> FALSE, voiceActive |-> TRUE, isListening |-> TRUE]
        /\ processingRef = FALSE
        /\ heartbeatRef = TRUE
        /\ recState = "running"
        /\ recStartPending = FALSE
        /\ synthQueue = <<>>
        /\ synthCancelled = 0
        /\ speakTimers = <<>>
        /\ restartTimers = 0
        /\ calls = <<>>
        /\ acceptTimers = IF v.activeTrip = "searching" THEN 1 ELSE 0
        /\ locationCalls = <<>>
        /\ lastEvent = "other"
        /\ tripPosition =
              IF v.activeTrip = NullTrip THEN NoPosition
              ELSE [driverLat |-> IF v.activeTrip = "accepted"
                                  THEN UserLocation.lat - DriverOffset ELSE 0,
                    driverLng |-> IF v.activeTrip = "accepted"
                                  THEN UserLocation.lng - DriverOffset ELSE 0,
                    pickupLat |-> UserLocation.lat, pickupLng |-> UserLocation.lng]
        /\ simTimers = IF v.activeTrip = "accepted" /\ v.userType = "passenger" THEN 1 ELSE 0

\* The state getGeminiResponse leaves for a response, given the call's argument.
Answered(data) == applyIntent([Cur EXCEPT !.calls = Tail(@)], data, Head(calls))

\* The intent service answers the call with any action and value.
IntentAnswered ==
    /\ calls # <<>>
    /\ \/ \E data \in WordIntents : DoApp(Answered(data), "IntentDispatched")
       \/ \E data \in TextIntents : DoApp(Answered(data), "IntentDispatched")

InterpreterNext ==
    \/ SettledRecResult
    \/ SyncEffect
    \/ UiGoBack
    \/ IntentAnswered

InterpreterSpec == InterpreterInit /\ [][InterpreterNext]_vars

----------------------------------------------------------------------------
(* A passenger's rides from the dashboard, with one voice command *)

\* The passenger is on the dashboard with pickup and destination resolved,
\* and the assistant is capturing.
RideInit ==
    /\ InterpreterInit
    /\ currentView = "passenger-dashboard"
    /\ tripRequest = [pickupSet |-> TRUE, destinationSet |-> TRUE]
    /\ passengerProfile = NewPassenger
    /\ driverProfile = NewDriver

\* The commands that change the role or the view at any point of a ride.
RideIntents ==
    { [action |-> a, value |-> "", speech |-> Prompt] :
          a \in {"CANCEL", "NAVIGATE_PASSENGER_REG", "NAVIGATE_DRIVER_REG"} }

RideIntentAnswered ==
    /\ calls # <<>>
    /\ \E data \in RideIntents : DoApp(Answered(data), "IntentDispatched")

\* Buttons, the acceptance timer, the simulation interval, the prompts the
\* handlers speak, and one captured command answered at any later point.
RideNext ==
    \/ SyncEffect
    \/ SettledSpeakTimerFire
    \/ SettledSynthEnd
    \/ SettledSynthCancelledCallback
    \/ SettledRecResult
    \/ SettledRecEnd
    \/ RideIntentAnswered
    \/ UiSelectRole
    \/ UiGoBack
    \/ UiRequestTrip
    \/ TripAcceptedTimer
    \/ UiCompleteTrip
    \/ UiSubmitRating
    \/ SimTick

RideSpec == RideInit /\ [][RideNext]_vars

\* The simulation effect's condition.
Simulating == activeTrip = "accepted" /\ userType = "passenger"

ConfirmGuard(ctx) ==
    ctx.currentView = "passenger-dashboard" /\ ctx.tripRequest.destinationSet

\* C22: when a CONFIRM_TRIP intent is dispatched and the context view is not
\* the passenger dashboard or the context has no destination, the active trip,
\* the view and the acceptance timers are unchanged; a dispatch of CONFIRM_TRIP
\* that changes the active trip had the dashboard and a destination in its
\* context and leaves a trip in status 'searching'.
C22_ConfirmTripGuard ==
    [][\A data \in WordIntents :
          (data.action = "CONFIRM_TRIP" /\ calls # <<>> /\ Commit(Answered(data))) =>
              /\ ~ConfirmGuard(Head(calls)) =>
                    /\ activeTrip' = activeTrip
                    /\ currentView' = currentView
                    /\ acceptTimers' = acceptTimers
              /\ activeTrip' # activeTrip =>
                    /\ ConfirmGuard(Head(calls))
                    /\ activeTrip' = "searching"]_vars

\* A dispatch has just created a trip from the passenger dashboard.
C22_Witness ==
    /\ calls = <<>> /\ aiSpeaking /\ speakTimers # <<>>
    /\ stateRef.currentView = "passenger-dashboard"
    /\ stateRef.activeTrip = NullTrip
    /\ currentView = "searching"
    /\ activeTrip = "searching"
    /\ acceptTimers = 1

\* The intent's context guard does not match, or the action is NONE.
GuardMisses(data, ctx) ==
    \/ data.action = "NONE"
    \/ data.action = "SET_PASSENGER_NAME" /\ ctx.currentView \notin {"passenger-register", "home"}
    \/ data.action = "SET_DRIVER_NAME" /\ ctx.currentView \notin {"driver-register", "home"}
    \/ data.action = "CONFIRM_TRIP" /\ ~ConfirmGuard(ctx)

\* C23: a dispatch whose context guard does not match, or whose action is NONE,
\* changes no application state, trip position or pending application work,
\* and still ends Processing, sets Speaking and schedules the intent's prompt
\* (the default prompt when the intent has none).
C23_GuardMissStillSpeaks ==
    [][\A data \in WordIntents :
          (calls # <<>> /\ GuardMisses(data, Head(calls)) /\ Commit(Answered(data))) =>
              /\ AppState' = AppState
              /\ tripPosition' = tripPosition
              /\ acceptTimers' = acceptTimers
              /\ locationCalls' = locationCalls
              /\ isProcessing /\ ~isProcessing'
              /\ aiSpeaking'
              /\ speakTimers' = Append(speakTimers,
                                       IF data.speech = "" THEN Entendido ELSE data.speech)]_vars

\* A dispatch during a search has changed nothing and its prompt is scheduled.
C23_Witness ==
    /\ calls = <<>> /\ aiSpeaking /\ ~isProcessing
    /\ speakTimers = <<Prompt>>
    /\ currentView = "searching" /\ stateRef.currentView = "searching"
    /\ activeTrip = "searching"
    /\ passengerProfile = stateRef.passengerProfile
    /\ driverProfile = stateRef.driverProfile
    /\ userType = "passenger"

\* The positions of a text whose character is kept, and the place a kept
\* position has among them.
KeptPositions(text, kept) == {i \in DOMAIN text : text[i] \in kept}
PlaceOf(i, positions) == Cardinality({j \in positions : j <= i})

\* result is text with the characters outside kept removed and the order of
\* the others unchanged.
IsFilterOf(result, text, kept) ==
    /\ Len(result) = Cardinality(KeptPositions(text, kept))
    /\ \A i \in KeptPositions(text, kept) :
          result[PlaceOf(i, KeptPositions(text, kept))] = text[i]

\* C24: a dispatch of SET_PASSENGER_PHONE (SET_DRIVER_PHONE), in any view,
\* leaves in the passenger's (driver's) phone field the digits of the intent
\* value in their order and nothing else, "310 555 9999" giving "3105559999",
\* and changes no other field of either profile.
C24_PhoneDigitsOnly ==
    [][\A data \in TextIntents :
          (calls # <<>> /\ Commit(Answered(data))) =>
              /\ data.action = "SET_PASSENGER_PHONE" =>
                    /\ IsFilterOf(passengerProfile'.phone, data.value, Digits)
                    /\ data.value = << "3", "1", "0", " ", "5", "5", "5", " ", "9", "9", "9", "9" >>
                          => passengerProfile'.phone =
                                << "3", "1", "0", "5", "5", "5", "9", "9", "9", "9" >>
                    /\ passengerProfile' = [passengerProfile EXCEPT !.phone = passengerProfile'.phone]
                    /\ driverProfile' = driverProfile
              /\ data.action = "SET_DRIVER_PHONE" =>
                    /\ IsFilterOf(driverProfile'.phone, data.value, Digits)
                    /\ data.value = << "3", "1", "0", " ", "5", "5", "5", " ", "9", "9", "9", "9" >>
                          => driverProfile'.phone =
                                << "3", "1", "0", "5", "5", "5", "9", "9", "9", "9" >>
                    /\ driverProfile' = [driverProfile EXCEPT !.phone = driverProfile'.phone]
                    /\ passengerProfile' = passengerProfile]_vars

\* The spoken phone number has been stored during a trip, in a profile that
\* had a name.
C24_Witness ==
    /\ calls = <<>>
    /\ currentView = "trip-active"
    /\ passengerProfile.name = "Ana"
    /\ passengerProfile.phone = << "3", "1", "0", "5", "5", "5", "9", "9", "9", "9" >>

\* The upper-case form of a letter or digit.
UpperOf(c) ==
    IF \E k \in DOMAIN LowerCase : LowerCase[k] = c
    THEN UpperCase[CHOOSE k \in DOMAIN LowerCase : LowerCase[k] = c]
    ELSE c

\* C25: a dispatch of SET_DRIVER_PLATE, in any view, leaves in the driver's
\* plate field the letters and digits of the intent value in their order, each
\* letter in upper case, and nothing else, "x y z 555" giving "XYZ555";
\* cleaning the stored plate again gives the stored plate.
C25_PlateCleanedUppercase ==
    [][\A data \in TextIntents :
          (calls # <<>> /\ data.action = "SET_DRIVER_PLATE" /\ Commit(Answered(data))) =>
              LET plate == driverProfile'.plate
                  positions == KeptPositions(data.value, Letters \cup Digits)
              IN /\ Len(plate) = Cardinality(positions)
                 /\ \A i \in positions :
                       plate[PlaceOf(i, positions)] = UpperOf(data.value[i])
                 /\ \A k \in DOMAIN plate :
                       plate[k] \in Digits \cup {UpperCase[n] : n \in DOMAIN UpperCase}
                 /\ data.value = << "x", " ", "y", " ", "z", " ", "5", "5", "5" >>
                       => plate = << "X", "Y", "Z", "5", "5", "5" >>
                 /\ cleanPlate(plate) = plate]_vars

\* The spoken plate has been stored while the driver is on the dashboard.
C25_Witness ==
    /\ calls = <<>>
    /\ currentView = "driver-dashboard"
    /\ driverProfile.plate = << "X", "Y", "Z", "5", "5", "5" >>

\* C26: a dispatch of SET_PASSENGER_NAME (SET_DRIVER_NAME) whose context view
\* is the passenger's (driver's) registration view sets that profile's name to
\* the intent value and leaves role and view alone; with context view home it
\* sets the name, the role and the matching registration view; with any other
\* context view it changes neither profile, the role or the view.
C26_NameOnlyWhereRegistering ==
    [][\A data \in WordIntents :
          (calls # <<>> /\ Commit(Answered(data))) =>
              /\ data.action = "SET_PASSENGER_NAME" =>
                    CASE Head(calls).currentView = "passenger-register" ->
                           /\ passengerProfile' = [passengerProfile EXCEPT !.name = data.value]
                           /\ userType' = userType /\ currentView' = currentView
                      [] Head(calls).currentView = "home" ->
                           /\ passengerProfile' = [passengerProfile EXCEPT !.name = data.value]
                           /\ userType' = "passenger"
                           /\ currentView' = "passenger-register"
                      [] OTHER ->
                           /\ passengerProfile' = passengerProfile
                           /\ userType' = userType /\ currentView' = currentView
              /\ data.action = "SET_DRIVER_NAME" =>
                    CASE Head(calls).currentView = "driver-register" ->
                           /\ driverProfile' = [driverProfile EXCEPT !.name = data.value]
                           /\ userType' = userType /\ currentView' = currentView
                      [] Head(calls).currentView = "home" ->
                           /\ driverProfile' = [driverProfile EXCEPT !.name = data.value]
                           /\ userType' = "driver"
                           /\ currentView' = "driver-register"
                      [] OTHER ->
                           /\ driverProfile' = driverProfile
                           /\ userType' = userType /\ currentView' = currentView]_vars

\* A name spoken on the home view has registered a passenger.
C26_Witness ==
    /\ calls = <<>>
    /\ stateRef.currentView = "home"
    /\ stateRef.passengerProfile.name = ""
    /\ currentView = "passenger-register"
    /\ userType = "passenger"
    /\ passengerProfile.name = "Ana"

\* A dispatch step has started the resolution of a destination: a geolocation
\* request that handleSetDestination awaits, or the destination itself.
ResolutionTriggered ==
    \/ locationCalls' = Append(locationCalls, "destination")
    \/ tripRequest'.destinationSet

\* C27: a dispatch of NAVIGATE_DESTINATION whose context view is the passenger
\* (driver) registration view switches the view to the passenger (driver)
\* dashboard, and in every view it starts the resolution of a destination.
C27_DestinationFromRegistration ==
    [][\A data \in WordIntents :
          (calls # <<>> /\ data.action = "NAVIGATE_DESTINATION" /\ Commit(Answered(data))) =>
              /\ Head(calls).currentView = "passenger-register"
                    => currentView' = "passenger-dashboard"
              /\ Head(calls).currentView = "driver-register"
                    => currentView' = "driver-dashboard"
              /\ ResolutionTriggered]_vars

\* C28: a dispatch of CANCEL leaves the application state the back action
\* leaves when taken in the view the dispatch runs in: from a registration
\* view or the passenger dashboard the view is home and the role cleared, from
\* the driver dashboard also the driver status is offline, from 'searching' the
\* view is the passenger dashboard and the active trip cleared, from
\* 'rate-driver' the rating is submitted (trip and trip request cleared, view
\* the passenger dashboard), and from home and 'trip-active' nothing changes.
C28_CancelIsGoBack ==
    [][\A data \in WordIntents :
          (calls # <<>> /\ data.action = "CANCEL" /\ Commit(Answered(data))) =>
              /\ AppState' = AppStateOf(goBack(Cur))
              /\ AppState' =
                   CASE currentView \in RegisterViews \cup {"passenger-dashboard"} ->
                          <<NoUser, "home", passengerProfile, driverProfile, driverStatus,
                            activeTrip, tripRequest>>
                     [] currentView = "driver-dashboard" ->
                          <<NoUser, "home", passengerProfile, driverProfile, "offline",
                            activeTrip, tripRequest>>
                     [] currentView = "searching" ->
                          <<userType, "passenger-dashboard", passengerProfile, driverProfile,
                            driverStatus, NullTrip, tripRequest>>
                     [] currentView = "rate-driver" ->
                          <<userType, "passenger-dashboard", passengerProfile, driverProfile,
                            driverStatus, NullTrip, EmptyRequest>>
                     [] OTHER -> AppState]_vars

\* A CANCEL has just ended a search.
C28_Witness ==
    /\ calls = <<>> /\ aiSpeaking /\ speakTimers # <<>>
    /\ stateRef.currentView = "searching"
    /\ stateRef.activeTrip = "searching"
    /\ currentView = "passenger-dashboard"
    /\ activeTrip = NullTrip

\* C29: in every step that ends the active trip (rating submitted, trip
\* completed by the driver, search cancelled by the back action or by a CANCEL
\* intent) the trip request is left with no pickup and no destination.
C29_TripEndResetsRequest ==
    [][(activeTrip # NullTrip /\ activeTrip' = NullTrip) => tripRequest' = EmptyRequest]_vars

----------------------------------------------------------------------------
(* An accepted trip whose search was not the passenger's first *)

\* The passenger's trip has been accepted and the prompt spoken.  A search
\* that was cancelled before this one leaves its 4 s timer pending: requestTrip
\* keeps no handle to it, and the timer of either search marks the trip
\* accepted.
AcceptedInit ==
    /\ isListening = FALSE
    /\ isProcessing = FALSE
    /\ aiSpeaking = FALSE
    /\ voiceActive = FALSE
    /\ userType = "passenger"
    /\ currentView = "trip-active"
    /\ passengerProfile \in PassengerProfiles
    /\ driverProfile = NewDriver
    /\ driverStatus = "offline"
    /\ activeTrip = "accepted"
    /\ tripRequest = [pickupSet |-> TRUE, destinationSet |-> TRUE]
    /\ stateRef = [currentView |-> "trip-active", userType |-> "passenger",
                   driverProfile |-> NewDriver, passengerProfile |-> passengerProfile,
                   tripRequest |-> [pickupSet |-> TRUE, destinationSet |-> TRUE],
                   activeTrip |-> "accepted",
                   aiSpeaking |-> FALSE, voiceActive |-> FALSE, isListening |-> FALSE]
    /\ processingRef = FALSE
    /\ heartbeatRef = FALSE
    /\ recState = "idle"
    /\ recStartPending = FALSE
    /\ synthQueue = <<>>
    /\ synthCancelled = 0
    /\ speakTimers = <<>>
    /\ restartTimers = 0
    /\ calls = <<>>
    /\ acceptTimers \in 0..MaxAcceptTimers
    /\ locationCalls = <<>>
    /\ lastEvent = "other"
    /\ tripPosition = [driverLat |-> UserLocation.lat - DriverOffset,
                       driverLng |-> UserLocation.lng - DriverOffset,
                       pickupLat |-> UserLocation.lat, pickupLng |-> UserLocation.lng]
    /\ simTimers = 1

AcceptedNext ==
    \/ SimTick
    \/ TripAcceptedTimer
    \/ SyncEffect
    \/ SettledSpeakTimerFire
    \/ SettledSynthEnd
    \/ SettledSynthCancelledCallback
    \/ UiCompleteTrip
    \/ UiSubmitRating

AcceptedSpec == AcceptedInit /\ [][AcceptedNext]_vars

\* The driver position of the active trip.
DriverPosition == <<tripPosition.driverLat, tripPosition.driverLng>>

\* C30: a step that changes the driver position of a trip that is and stays
\* accepted is a simulation tick taken while the user is a passenger; and a
\* step in which only the tick's updater acts changes nothing but the driver
\* position: not the pickup point, the status, the application state or the
\* voice session.
C30_OnlyTicksMoveDriver ==
    [][/\ (activeTrip = "accepted" /\ activeTrip' = "accepted"
                /\ DriverPosition' # DriverPosition)
          => (Simulating /\ simTimers > 0 /\ Commit(syncEffects(simulationTick(Cur))))
       /\ (simTimers > 0 /\ Commit(syncEffects(simulationTick(Cur))))
          => /\ AppState' = AppState
             /\ tripPosition'.pickupLat = tripPosition.pickupLat
             /\ tripPosition'.pickupLng = tripPosition.pickupLng
             /\ <<isListening, isProcessing, aiSpeaking, voiceActive, recState, synthQueue,
                  speakTimers, restartTimers, calls, acceptTimers, locationCalls>>'
                = <<isListening, isProcessing, aiSpeaking, voiceActive, recState, synthQueue,
                    speakTimers, restartTimers, calls, acceptTimers, locationCalls>>]_vars

----------------------------------------------------------------------------
(* The simulation with its interval firing again and again *)

\* Every tick's render clears the interval and creates a new one, which fires
\* a second later: a tick that can be taken is eventually taken.
SimFairSpec == SimInit /\ [][SimNext]_vars /\ WF_vars(SimTick)

\* The driver is at the pickup point.
Arrived ==
    /\ tripPosition.driverLat = tripPosition.pickupLat
    /\ tripPosition.driverLng = tripPosition.pickupLng

\* C31: while a passenger's trip is accepted and stays accepted, with the
\* simulation interval firing, the driver position eventually equals the
\* pickup point.
C31_DriverArrives == Simulating ~> (Arrived \/ ~Simulating)

----------------------------------------------------------------------------
(* Capture and the assistant's switch *)

\* A step in which recognition.start() opens a session.
CaptureStartIssued == recState # "running" /\ recState' = "running"

\* C32: no capture start is issued in a state where voiceActive is false:
\* after the assistant is disabled, no restart timer, failed intent call or
\* heartbeat tick opens a recognition session until it is enabled again.
C32_NoCaptureWhileDisabled == [][CaptureStartIssued => voiceActive]_vars

\* C33: whenever the synthesis adapter has an utterance speaking or pending,
\* aiSpeaking is true; the callback of an utterance cancelled by a newer
\* speak() does not clear the flag under the newer utterance.
C33_SpeakingCoversSynthesis == synthQueue # <<>> => aiSpeaking

----------------------------------------------------------------------------
(* A cancelled search *)

\* A step in which a 4 s timer of requestTrip runs its callback.
AcceptanceTimerRuns == acceptTimers' < acceptTimers

\* C34: cancelling a search is final: the acceptance timer never runs its
\* update with the active trip cleared, and the view only switches to
\* 'trip-active' with an accepted trip.
C34_CancelledSearchIsFinal ==
    /\ [][AcceptanceTimerRuns => activeTrip # NullTrip]_vars
    /\ [][(currentView # "trip-active" /\ currentView' = "trip-active")
            => activeTrip' = "accepted"]_vars

----------------------------------------------------------------------------
(* Requesting a trip: the passenger dashboard with any trip request *)

RequestInit ==
    /\ InterpreterInit
    /\ currentView = "passenger-dashboard"
    /\ passengerProfile = NewPassenger
    /\ driverProfile = NewDriver

\* The commands that request and cancel a trip.
RequestIntents ==
    { [action |-> a, value |-> "", speech |-> Prompt] : a \in {"CONFIRM_TRIP", "CANCEL"} }

RequestIntentAnswered ==
    /\ calls # <<>>
    /\ \E data \in RequestIntents : DoApp(Answered(data), "IntentDispatched")

\* The request and cancel buttons, the acceptance timer, the end of the trip,
\* the prompts the handlers speak, and one captured command answered at any
\* later point.
RequestNext ==
    \/ SyncEffect
    \/ SettledSpeakTimerFire
    \/ SettledSynthEnd
    \/ SettledSynthCancelledCallback
    \/ SettledRecResult
    \/ SettledRecEnd
    \/ RequestIntentAnswered
    \/ UiGoBack
    \/ UiRequestTrip
    \/ TripAcceptedTimer
    \/ UiCompleteTrip
    \/ UiSubmitRating

RequestSpec == RequestInit /\ [][RequestNext]_vars

\* Both coordinates that requestTrip tests are set.
RequestComplete(request) == request.pickupSet /\ request.destinationSet

\* A step in which requestTrip makes a new trip the active trip.
TripCreated == activeTrip' = "searching" /\ acceptTimers' = acceptTimers + 1

\* C35: a trip is created only from a trip request with pickup and destination
\* set, with status 'searching' and view 'searching'; requestTrip with a
\* coordinate missing leaves the active trip, the view and the rest of the
\* application state unchanged and schedules one prompt; the status of the
\* active trip changes from 'searching' to 'accepted' only, unless the trip
\* is cleared or replaced by a newly created one.
C35_RequestTripGuard ==
    /\ [][TripCreated => RequestComplete(tripRequest) /\ currentView' = "searching"]_vars
    /\ [][UiRequestTrip =>
            IF RequestComplete(tripRequest)
            THEN TripCreated /\ speakTimers' = speakTimers
            ELSE /\ AppState' = AppState
                 /\ tripPosition' = tripPosition
                 /\ acceptTimers' = acceptTimers
                 /\ speakTimers' = Append(speakTimers, Prompt)]_vars
    /\ [][(activeTrip # NullTrip /\ activeTrip' # activeTrip /\ ~TripCreated)
            => \/ activeTrip = "searching" /\ activeTrip' = "accepted"
               \/ activeTrip' = NullTrip]_vars

\* The request button was pressed with no pickup known: nothing but a prompt.
C35_Witness ==
    /\ currentView = "passenger-dashboard"
    /\ tripRequest = [pickupSet |-> FALSE, destinationSet |-> TRUE]
    /\ activeTrip = NullTrip
    /\ acceptTimers = 0
    /\ calls = <<>> /\ ~isProcessing
    /\ aiSpeaking
    /\ speakTimers = <<Prompt>>

----------------------------------------------------------------------------
(* A capture result with nothing said *)

\* C36: a capture result whose transcript is empty or only white space starts
\* no processing: isProcessing and the intent-service calls are as before, no
\* application state changes, and nothing but the recognition session's end
\* is recorded.
C36_BlankResultIgnored ==
    [][RecResultBlank =>
          /\ isProcessing' = isProcessing
          /\ calls' = calls
          /\ AppState' = AppState
          /\ UNCHANGED <<isListening, aiSpeaking, voiceActive, stateRef, processingRef,
                         heartbeatRef, synthQueue, synthCancelled, speakTimers,
                         restartTimers, acceptTimers, locationCalls, tripPosition,
                         simTimers>>]_vars

\* A blank result has just been delivered to an idle assistant.
C36_Witness ==
    /\ lastEvent = "RecResultBlank"
    /\ recState = "ending"
    /\ voiceActive
    /\ ~isProcessing
    /\ calls = <<>>

----------------------------------------------------------------------------
(* Intents outside the enumeration *)

\* The actions the intent service is told to choose from.
ActionKinds ==
    { "SET_PASSENGER_NAME", "SET_PASSENGER_PHONE", "SET_DRIVER_NAME", "SET_DRIVER_PHONE",
      "SET_DRIVER_PLATE", "NAVIGATE_PASSENGER_REG", "NAVIGATE_DRIVER_REG",
      "NAVIGATE_DESTINATION", "CONFIRM_TRIP", "CANCEL", "NONE" }

\* C37: a dispatch of an intent whose action is missing (the empty string
\* here) or is none of the eleven action strings changes no application
\* state, trip position or pending application work and schedules exactly one
\* prompt: the intent's speech, or "Entendido." when the speech is empty.
C37_UnknownActionStillAnswered ==
    [][\A data \in WordIntents :
          (data.action \notin ActionKinds /\ calls # <<>> /\ Commit(Answered(data))) =>
              /\ AppState' = AppState
              /\ tripPosition' = tripPosition
              /\ acceptTimers' = acceptTimers
              /\ locationCalls' = locationCalls
              /\ Len(speakTimers') = Len(speakTimers) + 1
              /\ speakTimers'[Len(speakTimers')] =
                    (IF data.speech = "" THEN Entendido ELSE data.speech)
              /\ aiSpeaking' /\ ~isProcessing']_vars

\* A dispatch on the driver dashboard has changed nothing and the default
\* prompt is scheduled.
C37_Witness ==
    /\ calls = <<>> /\ aiSpeaking /\ ~isProcessing
    /\ speakTimers = <<Entendido>>
    /\ currentView = "driver-dashboard" /\ stateRef.currentView = "driver-dashboard"
    /\ driverStatus = "online"
    /\ userType = "driver"
    /\ driverProfile = stateRef.driverProfile

====
